---------------------------- MODULE Spec2Model ----------------------------
(***************************************************************************)
(* A model of app.py, the Streamlit dashboard of the IoT watering system:  *)
(* the three SQLite tables and the functions that read and write them, the *)
(* HTTP gateway to the ESP8266, and the top-to-bottom render pass of the   *)
(* script with the widget events that trigger it.                          *)
(*                                                                         *)
(* Time is counted in hours (the unit of get_recent_data's window).  A     *)
(* Python dict is a record [keys, val]: the set of keys present and the    *)
(* values under them.                                                      *)
(***************************************************************************)
EXTENDS Integers, Sequences, FiniteSets, TLC

\* ------------------------------------------------------------------ bounds

\* Calls of insert_sensor_data made by the device-side writer.
MaxInserts == 1
\* Rows the schedules table ever receives (its AUTOINCREMENT ids).
MaxSchedules == 1
\* Requests the session sends to the device.
MaxPresses == 2
\* Hours the clock advances.
MaxTicks == 1
\* Direct calls of the database functions, the writer's inserts apart.
MaxCalls == 3
\* Rows of the largest sensor_data table found when the program starts.
PriorRows == 100

VARIABLES
    sensor_data,    \* table sensor_data, in rowid order
    schedules,      \* table schedules, in rowid order
    schedule_seq,   \* sqlite_sequence of schedules: the largest id ever given
    pump_logs,      \* table pump_logs, in rowid order
    now,            \* the clock, in hours
    ticks,          \* hours the clock has advanced
    lastOp,         \* the last direct call of a database function and its outcome
    inserts,        \* calls of insert_sensor_data so far
    calls,          \* direct calls of the database functions so far
    appended,       \* history: the moisture readings insert_sensor_data stored
    requests,       \* the number of requests posted to the device so far
    lastCmd,        \* the last request, the device's answer, what the caller got
    pc,             \* the section the render pass is about to execute
    pressed,        \* the button whose click triggered this pass
    delete_id,      \* the schedule id of the Delete button clicked
    esp_ip,         \* the ESP8266 IP Address text input
    auto_refresh,   \* the Auto-refresh checkbox
    latest_data,    \* script variable latest_data (a sequence of 0 or 1 row)
    df,             \* script variable df
    df_assigned,    \* whether df is bound in this pass
    pump_status,    \* the Pump Status metric shown in this pass
    gauge_band,     \* the colours of the gauge steps holding the gauge value
    notice          \* the notice shown by the button pressed in this pass

dbVars == <<sensor_data, schedules, schedule_seq, pump_logs>>
clockVars == <<now, ticks>>
apiVars == <<lastOp, inserts, calls, appended>>
netVars == <<requests, lastCmd>>
widgetVars == <<esp_ip, auto_refresh>>
passVars == <<pc, pressed, delete_id, latest_data, df, df_assigned,
              pump_status, gauge_band, notice>>
vars == <<dbVars, clockVars, apiVars, netVars, widgetVars, passVars>>

\* ---------------------------------------------------------------- helpers

Last(s) == s[Len(s)]

RemoveAt(s, k) == SubSeq(s, 1, k - 1) \o SubSeq(s, k + 1, Len(s))

\* ----------------------------------------------------------- sensor_data

\* The columns insert_sensor_data reads from its argument, in order.
SensorFields ==
    <<"device_id", "timestamp", "moisture_percent", "moisture_raw", "pump_state",
      "manual_mode", "dry_threshold", "wet_threshold", "wifi_rssi", "free_heap">>

FullVal(m, p) ==
    [device_id |-> "esp1", timestamp |-> 7, moisture_percent |-> m,
     moisture_raw |-> 512, pump_state |-> p, manual_mode |-> FALSE,
     dry_threshold |-> 30, wet_threshold |-> 50, wifi_rssi |-> 0 - 60,
     free_heap |-> 4096]

\* The device payloads the writer passes to insert_sensor_data: two complete
\* ones, one that lacks some fields, and the empty object {}.
Payloads ==
    << [keys |-> {SensorFields[i] : i \in 1..Len(SensorFields)},
        val |-> FullVal(25, TRUE)],
       [keys |-> {SensorFields[i] : i \in 1..Len(SensorFields)},
        val |-> FullVal(55, FALSE)],
       [keys |-> {"device_id", "timestamp", "moisture_percent"},
        val |-> FullVal(40, FALSE)],
       [keys |-> {}, val |-> FullVal(0, FALSE)] >>

\* data[k]: the value, or KeyError when the key is absent.
HasKey(data, k) == k \in data.keys

SensorRow(id, v, t) ==
    [id |-> id, device_id |-> v.device_id, timestamp |-> v.timestamp,
     moisture_percent |-> v.moisture_percent, moisture_raw |-> v.moisture_raw,
     pump_state |-> v.pump_state, manual_mode |-> v.manual_mode,
     dry_threshold |-> v.dry_threshold, wet_threshold |-> v.wet_threshold,
     wifi_rssi |-> v.wifi_rssi, free_heap |-> v.free_heap, created_at |-> t]

\* insert_sensor_data with a fault seeded:
\* a reading buffer capped at 100 rows.
insert_sensor_data_capped(data, table, t) ==
    IF \E i \in 1..Len(SensorFields) : ~HasKey(data, SensorFields[i])
    THEN [raised |-> "KeyError", table |-> table]
    ELSE LET all == Append(table, SensorRow(Len(table) + 1, data.val, t))
         IN  [raised |-> "none",
              table |-> IF Len(all) > 100
                        THEN SubSeq(all, Len(all) - 99, Len(all)) ELSE all]

\* insert_sensor_data(data): the tuple of data['...'] lookups is built before
\* the INSERT runs, so a missing key raises KeyError and stores nothing.
\* Rows are never deleted, so the AUTOINCREMENT id is the row count plus one.
insert_sensor_data(data, table, t) ==
    IF \E i \in 1..Len(SensorFields) : ~HasKey(data, SensorFields[i])
    THEN [raised |-> "KeyError", table |-> table]
    ELSE [raised |-> "none",
          table |-> Append(table, SensorRow(Len(table) + 1, data.val, t))]

\* get_recent_data(hours): the rows of the window.  The model keeps them in
\* rowid order; the code's ORDER BY created_at DESC reverses what is shown.
get_recent_data(hours, table, t) ==
    SelectSeq(table, LAMBDA r : r.created_at >= t - hours)

\* get_latest_data(): ORDER BY created_at DESC LIMIT 1 yields a row of the
\* greatest created_at (SQLite leaves the order among equals open); None,
\* here the empty set, when the table is empty.
get_latest_data(table) ==
    {table[i] : i \in {j \in 1..Len(table) :
                        \A k \in 1..Len(table) :
                            table[k].created_at <= table[j].created_at}}

\* ------------------------------------------------------------- schedules

ScheduleRow(id, name, hour, minute, duration, enabled, t) ==
    [id |-> id, name |-> name, hour |-> hour, minute |-> minute,
     duration |-> duration, enabled |-> enabled, created_at |-> t]

\* save_schedule(...): AUTOINCREMENT gives an id above every id ever used.
save_schedule(name, hour, minute, duration, enabled, table, seq, t) ==
    [table |-> Append(table,
                      ScheduleRow(seq + 1, name, hour, minute, duration, enabled, t)),
     seq |-> seq + 1]

\* delete_schedule with a fault seeded:
\* the identifier taken as a list position.
delete_schedule_by_position(schedule_id, table) ==
    IF schedule_id \in 1..Len(table)
    THEN [raised |-> "none", table |-> RemoveAt(table, schedule_id)]
    ELSE [raised |-> "IndexOutOfRange", table |-> table]

\* delete_schedule(schedule_id): DELETE ... WHERE id = ?, which deletes
\* nothing and reports nothing when no row has that id.
delete_schedule(schedule_id, table) ==
    [raised |-> "none",
     table |-> SelectSeq(table, LAMBDA r : r.id # schedule_id)]

\* get_schedules(): the rows ORDER BY hour, minute (rows of equal time are
\* left in rowid order), built by inserting each row into a sorted prefix.
ScheduleBefore(a, b) ==
    a.hour < b.hour \/ (a.hour = b.hour /\ a.minute <= b.minute)

RECURSIVE SortedInsert(_, _)
SortedInsert(s, r) ==
    IF s = <<>> THEN <<r>>
    ELSE IF ScheduleBefore(Last(s), r) THEN Append(s, r)
    ELSE Append(SortedInsert(SubSeq(s, 1, Len(s) - 1), r), Last(s))

RECURSIVE get_schedules(_)
get_schedules(table) ==
    IF table = <<>> THEN <<>>
    ELSE SortedInsert(get_schedules(SubSeq(table, 1, Len(table) - 1)), Last(table))

\* ------------------------------------------------------------- pump_logs

\* log_pump_action(action, trigger_type, moisture_level)
log_pump_action(action, trigger_type, moisture_level, table, t) ==
    Append(table, [action |-> action, trigger_type |-> trigger_type,
                   moisture_level |-> moisture_level, timestamp |-> t])

\* --------------------------------------------------------------- gateway

\* What a POST to the device can come to: an HTTP answer with a status code,
\* or an exception of requests (timeout, refused connection, no route, a URL
\* that esp_ip makes invalid).
Responses ==
    {[kind |-> "http", code |-> 200], [kind |-> "http", code |-> 204],
     [kind |-> "http", code |-> 500], [kind |-> "timeout", code |-> 0],
     [kind |-> "refused", code |-> 0]}

\* requests.post(url, timeout=5): the response, or the exception raised.
requests_post(resp) ==
    [exc |-> resp.kind # "http", status_code |-> resp.code]

\* send_command_to_esp with a fault seeded:
\* any 2xx answer counts (response.ok).
send_command_to_esp_any_2xx(command, ip, resp) ==
    LET r == requests_post(resp)
    IN  IF r.exc THEN [raised |-> FALSE, value |-> FALSE]
        ELSE [raised |-> FALSE, value |-> r.status_code \in 200..299]

\* send_command_to_esp(command, esp_ip): what the caller gets, a value or an
\* exception.  The bare except turns every exception into False.
send_command_to_esp(command, ip, resp) ==
    LET r == requests_post(resp)
    IN  IF r.exc THEN [raised |-> FALSE, value |-> FALSE]
        ELSE [raised |-> FALSE, value |-> r.status_code = 200]

\* A POST to http://{ip}/api/{path} with form data, the device's answer,
\* what the caller got back (a value, or an exception raised), and the rows
\* sensor_data held then.
Command(ip, path, data, resp, raised, value, rows) ==
    [ip |-> ip, path |-> path, data |-> data, resp |-> resp, raised |-> raised,
     value |-> value, rows |-> rows]

NoCmd == Command("", "none", <<>>, [kind |-> "none", code |-> 0], FALSE, FALSE, 0)

NoNotice == [kind |-> "none", text |-> ""]

\* ----------------------------------------------------------------- gauge

\* The gauge steps with a fault seeded:
\* yellow up to 60.
gauge_steps_60 ==
    << [lo |-> 0, hi |-> 30, color |-> "red"],
       [lo |-> 30, hi |-> 60, color |-> "yellow"],
       [lo |-> 60, hi |-> 100, color |-> "green"] >>

\* fig_gauge's 'steps'.
gauge_steps ==
    << [lo |-> 0, hi |-> 30, color |-> "red"],
       [lo |-> 30, hi |-> 50, color |-> "yellow"],
       [lo |-> 50, hi |-> 100, color |-> "green"] >>

\* The colours of the steps whose range holds the gauge's value: one colour
\* inside a step, two where two steps share an edge.
GaugeBand(value) ==
    {gauge_steps[i].color :
        i \in {j \in 1..Len(gauge_steps) :
                  gauge_steps[j].lo <= value /\ value <= gauge_steps[j].hi}}

\* The options of the time range selectbox.
TimeRanges == {"Last 1 hour", "Last 6 hours", "Last 24 hours", "Last 7 days"}

\* hours_map
hours_map(range) ==
    CASE range = "Last 1 hour" -> 1
      [] range = "Last 6 hours" -> 6
      [] range = "Last 24 hours" -> 24
      [] range = "Last 7 days" -> 168

\* ---------------------------------------------------------- initial state

\* The database file outlives the program (CREATE TABLE IF NOT EXISTS): the
\* n rows an earlier run of the writer left in sensor_data.  The newest was
\* stored this hour, the others twelve hours ago.
InitialSensorData(n) ==
    [i \in 1..n |->
        SensorRow(i, FullVal((i * 37) % 101, i % 2 = 1),
                  IF i < n \/ n = 1 THEN 0 ELSE 12)]

\* The n schedules an earlier session left, enabled, at 12:00 and 07:00 in
\* turn.
InitialSchedules(n) ==
    [i \in 1..n |->
        ScheduleRow(i, "Morning Watering", IF i % 2 = 1 THEN 12 ELSE 7, 0, 5, TRUE, 0)]

MoistureOf(table) == [i \in 1..Len(table) |-> table[i].moisture_percent]

\* init_database() has run; the widgets hold their defaults; nothing is
\* pressed, and the first pass of the script is about to start.
InitSession ==
    /\ schedule_seq = Len(schedules)
    /\ pump_logs = <<>>
    /\ now = 12
    /\ ticks = 0
    /\ lastOp = [op |-> "none", arg |-> 0, raised |-> "none"]
    /\ inserts = 0
    /\ calls = 0
    /\ appended = MoistureOf(sensor_data)
    /\ requests = 0
    /\ lastCmd = NoCmd
    /\ pc = "manual"
    /\ pressed = "none"
    /\ delete_id = 0
    /\ esp_ip = "192.168.1.100"
    /\ auto_refresh = FALSE
    /\ latest_data = <<>>
    /\ df = <<>>
    /\ df_assigned = FALSE
    /\ pump_status = "none"
    /\ gauge_band = {}
    /\ notice = NoNotice

Init ==
    /\ \E n \in 0..2 : sensor_data = InitialSensorData(n)
    /\ \E n \in 0..1 : schedules = InitialSchedules(n)
    /\ InitSession

\* ------------------------------------------- the device-side writer, time

\* The writer hands a device payload to insert_sensor_data.
Ingest ==
    /\ inserts < MaxInserts
    /\ \E i \in 1..Len(Payloads) :
        LET r == insert_sensor_data(Payloads[i], sensor_data, now)
        IN  /\ sensor_data' = r.table
            /\ lastOp' = [op |-> "insert_sensor_data", arg |-> i, raised |-> r.raised]
            /\ appended' = IF r.raised = "none"
                           THEN Append(appended, Payloads[i].val.moisture_percent)
                           ELSE appended
    /\ inserts' = inserts + 1
    /\ calls' = calls + 1
    /\ UNCHANGED <<schedules, schedule_seq, pump_logs, clockVars, netVars,
                   widgetVars, passVars>>

\* An hour passes.
Tick ==
    /\ ticks < MaxTicks
    /\ now' = now + 1
    /\ ticks' = ticks + 1
    /\ UNCHANGED <<dbVars, apiVars, netVars, widgetVars, passVars>>

\* --------------------------------------------------------- the render pass

\* The script starts over from its first line: its variables are unbound,
\* nothing is shown yet, and only the button b (if any) reads as pressed.
Rerun(b, id) ==
    /\ pc' = "manual"
    /\ pressed' = b
    /\ delete_id' = id
    /\ latest_data' = <<>>
    /\ df' = <<>>
    /\ df_assigned' = FALSE
    /\ pump_status' = "none"
    /\ gauge_band' = {}
    /\ notice' = NoNotice

\* The page is on screen and takes clicks: the pass ended (at the footer or
\* at an exception) or sleeps before its automatic rerun.
Interactive == pc \in {"done", "raised", "sleep"}

CommandButtons == {"pump_on", "pump_off", "auto", "thresholds"}

\* The user clicks one of the sidebar's command buttons.
PressCommand ==
    /\ Interactive
    /\ requests < MaxPresses
    /\ \E b \in CommandButtons : Rerun(b, 0)
    /\ UNCHANGED <<dbVars, clockVars, apiVars, netVars, widgetVars>>

\* The user clicks Add Schedule.
PressAdd ==
    /\ Interactive
    /\ schedule_seq < MaxSchedules
    /\ Rerun("add", 0)
    /\ UNCHANGED <<dbVars, clockVars, apiVars, netVars, widgetVars>>

\* The user clicks the Delete button of a schedule on the page.
PressDelete ==
    /\ Interactive
    /\ \E i \in 1..Len(schedules) : Rerun("delete", schedules[i].id)
    /\ UNCHANGED <<dbVars, clockVars, apiVars, netVars, widgetVars>>

\* The user ticks or unticks Auto-refresh (the checkbox is on the page only
\* when the last pass came as far as line 368).
ToggleAutoRefresh ==
    /\ pc \in {"done", "sleep"}
    /\ auto_refresh' = ~auto_refresh
    /\ Rerun("none", 0)
    /\ UNCHANGED <<dbVars, clockVars, apiVars, netVars, esp_ip>>

\* PumpButton with a fault seeded:
\* the action is logged whatever the device answered.
PumpButtonLogsAlways(action, command, resp) ==
    LET r == send_command_to_esp(command, esp_ip, resp)
    IN  /\ requests' = requests + 1
        /\ lastCmd' = Command(esp_ip, command, <<>>, resp, r.raised, r.value,
                              Len(sensor_data))
        /\ pump_logs' = log_pump_action(action, "Manual", 0, pump_logs, now)
        /\ notice' = IF r.value
                     THEN [kind |-> "success", text |-> "Pump turned " \o action]
                     ELSE [kind |-> "error", text |-> "Failed to send command"]
        /\ pc' = "thresholds"

\* "Pump ON" / "Pump OFF" pressed: the command is sent; on True a success
\* notice and a pump_logs row, on False an error notice.
PumpButton(action, command, resp) ==
    LET r == send_command_to_esp(command, esp_ip, resp)
    IN  /\ requests' = requests + 1
        /\ lastCmd' = Command(esp_ip, command, <<>>, resp, r.raised, r.value,
                              Len(sensor_data))
        /\ IF r.raised
           THEN /\ pc' = "raised"
                /\ UNCHANGED <<pump_logs, notice>>
           ELSE /\ pc' = "thresholds"
                /\ IF r.value
                   THEN /\ notice' = [kind |-> "success",
                                      text |-> "Pump turned " \o action]
                        /\ pump_logs' =
                               log_pump_action(action, "Manual", 0, pump_logs, now)
                   ELSE /\ notice' = [kind |-> "error",
                                      text |-> "Failed to send command"]
                        /\ pump_logs' = pump_logs

\* AutoButton with a fault seeded:
\* the mode change is logged like a pump action.
AutoButtonLogs(resp) ==
    LET r == send_command_to_esp("mode/auto", esp_ip, resp)
    IN  /\ requests' = requests + 1
        /\ lastCmd' = Command(esp_ip, "mode/auto", <<>>, resp, r.raised, r.value,
                              Len(sensor_data))
        /\ pc' = "thresholds"
        /\ notice' = IF r.value
                     THEN [kind |-> "success", text |-> "Auto mode enabled"]
                     ELSE [kind |-> "error", text |-> "Failed to send command"]
        /\ pump_logs' = IF r.value
                        THEN log_pump_action("AUTO", "Manual", 0, pump_logs, now)
                        ELSE pump_logs

\* "Auto Mode" pressed: the command is sent and a notice shown; no log row.
AutoButton(resp) ==
    LET r == send_command_to_esp("mode/auto", esp_ip, resp)
    IN  /\ requests' = requests + 1
        /\ lastCmd' = Command(esp_ip, "mode/auto", <<>>, resp, r.raised, r.value,
                              Len(sensor_data))
        /\ pc' = IF r.raised THEN "raised" ELSE "thresholds"
        /\ notice' = IF r.raised THEN notice
                     ELSE IF r.value
                     THEN [kind |-> "success", text |-> "Auto mode enabled"]
                     ELSE [kind |-> "error", text |-> "Failed to send command"]
        /\ pump_logs' = pump_logs

\* Lines 163-187: the Manual Control section of the sidebar.
ManualControl ==
    /\ pc = "manual"
    /\ CASE pressed = "pump_on" ->
                \E resp \in Responses : PumpButton("ON", "pump/on", resp)
         [] pressed = "pump_off" ->
                \E resp \in Responses : PumpButton("OFF", "pump/off", resp)
         [] pressed = "auto" ->
                \E resp \in Responses : AutoButton(resp)
         [] OTHER ->
                /\ pc' = "thresholds"
                /\ UNCHANGED <<pump_logs, netVars, notice>>
    /\ UNCHANGED <<sensor_data, schedules, schedule_seq, clockVars, apiVars,
                   widgetVars, pressed, delete_id, latest_data, df, df_assigned,
                   pump_status, gauge_band>>

\* Where the user may have left the two sliders (defaults 30 and 50).
DrySlider == {20, 30}
WetSlider == {50}

\* Lines 191-207: the sliders and "Update Thresholds", whose try/except turns
\* every exception of the POST into the notice "Connection failed".
ThresholdSettings ==
    /\ pc = "thresholds"
    /\ pc' = "main"
    /\ IF pressed = "thresholds"
       THEN \E resp \in Responses, dry_threshold \in DrySlider,
               wet_threshold \in WetSlider :
               LET r == requests_post(resp)
                   ok == ~r.exc /\ r.status_code = 200
               IN  /\ requests' = requests + 1
                   /\ lastCmd' = Command(esp_ip, "thresholds",
                                         <<dry_threshold, wet_threshold>>, resp,
                                         FALSE, ok, Len(sensor_data))
                   /\ notice' =
                        IF r.exc
                        THEN [kind |-> "error", text |-> "Connection failed"]
                        ELSE IF r.status_code = 200
                        THEN [kind |-> "success", text |-> "Thresholds updated"]
                        ELSE [kind |-> "error", text |-> "Failed to update thresholds"]
       ELSE UNCHANGED <<netVars, notice>>
    /\ UNCHANGED <<dbVars, clockVars, apiVars, widgetVars, pressed, delete_id,
                   latest_data, df, df_assigned, pump_status, gauge_band>>

\* MainContent with a fault seeded:
\* after a successful pump command of this pass the
\* Pump Status shows the commanded value.
MainContentOptimistic ==
    /\ pc = "main"
    /\ pc' = "add"
    /\ IF get_latest_data(sensor_data) = {}
       THEN UNCHANGED <<latest_data, df, df_assigned, pump_status, gauge_band>>
       ELSE \E row \in get_latest_data(sensor_data), time_range \in TimeRanges :
               /\ latest_data' = <<row>>
               /\ pump_status' =
                    IF pressed = "pump_on" /\ lastCmd.value THEN "ON"
                    ELSE IF pressed = "pump_off" /\ lastCmd.value THEN "OFF"
                    ELSE IF row.pump_state THEN "ON" ELSE "OFF"
               /\ gauge_band' = GaugeBand(row.moisture_percent)
               /\ df' = get_recent_data(hours_map(time_range), sensor_data, now)
               /\ df_assigned' = TRUE
    /\ UNCHANGED <<dbVars, clockVars, apiVars, netVars, widgetVars, pressed,
                   delete_id, notice>>

\* Lines 209-299: the latest reading; when there is one, the Current Status
\* metrics, the gauge and df = get_recent_data(...) with its charts.
MainContent ==
    /\ pc = "main"
    /\ pc' = "add"
    /\ IF get_latest_data(sensor_data) = {}
       THEN UNCHANGED <<latest_data, df, df_assigned, pump_status, gauge_band>>
       ELSE \E row \in get_latest_data(sensor_data), time_range \in TimeRanges :
               /\ latest_data' = <<row>>
               /\ pump_status' = IF row.pump_state THEN "ON" ELSE "OFF"
               /\ gauge_band' = GaugeBand(row.moisture_percent)
               /\ df' = get_recent_data(hours_map(time_range), sensor_data, now)
               /\ df_assigned' = TRUE
    /\ UNCHANGED <<dbVars, clockVars, apiVars, netVars, widgetVars, pressed,
                   delete_id, notice>>

\* What the Add New Schedule form can hold when Add Schedule is clicked.
ScheduleForms ==
    {[hour |-> 7, enabled |-> TRUE], [hour |-> 12, enabled |-> TRUE],
     [hour |-> 12, enabled |-> FALSE]}

\* Lines 301-322: the Add New Schedule form; a click saves and reruns.
AddSchedule ==
    /\ pc = "add"
    /\ IF pressed = "add"
       THEN /\ \E f \in ScheduleForms :
                LET r == save_schedule("Morning Watering", f.hour, 0, 5, f.enabled,
                                       schedules, schedule_seq, now)
                IN  /\ schedules' = r.table
                    /\ schedule_seq' = r.seq
            /\ Rerun("none", 0)
            /\ UNCHANGED <<sensor_data, pump_logs>>
       ELSE /\ pc' = "list"
            /\ UNCHANGED <<dbVars, pressed, delete_id, latest_data, df,
                           df_assigned, pump_status, gauge_band, notice>>
    /\ UNCHANGED <<clockVars, apiVars, netVars, widgetVars>>

\* DisplaySchedules with a fault seeded:
\* an enabled schedule whose hour has come
\* switches the pump on.
DisplaySchedulesFiring ==
    /\ pc = "list"
    /\ pc' = "stats"
    /\ IF \E i \in 1..Len(schedules) :
             schedules[i].enabled /\ schedules[i].hour = now % 24
       THEN /\ requests' = requests + 1
            /\ lastCmd' = Command(esp_ip, "pump/on", <<>>,
                                  [kind |-> "http", code |-> 200], FALSE, TRUE,
                                  Len(sensor_data))
       ELSE UNCHANGED netVars
    /\ UNCHANGED <<dbVars, clockVars, apiVars, widgetVars,
                   pressed, delete_id, latest_data, df, df_assigned,
                   pump_status, gauge_band, notice>>

\* Lines 324-348: the list of get_schedules(); the row whose Delete button
\* was clicked is deleted and the script reruns.
DisplaySchedules ==
    /\ pc = "list"
    /\ LET schedules_df == get_schedules(schedules)
       IN  IF pressed = "delete"
              /\ \E i \in 1..Len(schedules_df) : schedules_df[i].id = delete_id
           THEN /\ schedules' = delete_schedule(delete_id, schedules).table
                /\ Rerun("none", 0)
           ELSE /\ pc' = "stats"
                /\ UNCHANGED <<schedules, pressed, delete_id, latest_data, df,
                               df_assigned, pump_status, gauge_band, notice>>
    /\ UNCHANGED <<sensor_data, schedule_seq, pump_logs, clockVars, apiVars,
                   netVars, widgetVars>>

\* Lines 350-365: `if not df.empty` reads df, a NameError when no latest
\* reading was found in this pass.
Statistics ==
    /\ pc = "stats"
    /\ pc' = IF df_assigned THEN "refresh" ELSE "raised"
    /\ UNCHANGED <<dbVars, clockVars, apiVars, netVars, widgetVars, pressed,
                   delete_id, latest_data, df, df_assigned, pump_status,
                   gauge_band, notice>>

\* Lines 367-370: with Auto-refresh ticked the pass sleeps, then reruns.
AutoRefresh ==
    /\ pc = "refresh"
    /\ pc' = IF auto_refresh THEN "sleep" ELSE "footer"
    /\ UNCHANGED <<dbVars, clockVars, apiVars, netVars, widgetVars, pressed,
                   delete_id, latest_data, df, df_assigned, pump_status,
                   gauge_band, notice>>

\* Line 370: st.experimental_rerun() after the sleep.
Wake ==
    /\ pc = "sleep"
    /\ Rerun("none", 0)
    /\ UNCHANGED <<dbVars, clockVars, apiVars, netVars, widgetVars>>

\* Lines 372-374: the footer; the pass is complete.
Footer ==
    /\ pc = "footer"
    /\ pc' = "done"
    /\ UNCHANGED <<dbVars, clockVars, apiVars, netVars, widgetVars, pressed,
                   delete_id, latest_data, df, df_assigned, pump_status,
                   gauge_band, notice>>

\* The dashboard session: the user's clicks and the passes they trigger.
Session ==
    \/ PressCommand
    \/ PressAdd
    \/ PressDelete
    \/ ToggleAutoRefresh
    \/ ManualControl
    \/ ThresholdSettings
    \/ MainContent
    \/ AddSchedule
    \/ DisplaySchedules
    \/ Statistics
    \/ AutoRefresh
    \/ Wake
    \/ Footer

Next == Session

Spec == Init /\ [][Next]_vars

\* The session's command buttons and passes (Auto-refresh left unticked)
\* while the device-side writer stores payloads, all within the hour.
NextLive ==
    \/ Ingest
    \/ PressCommand
    \/ ManualControl
    \/ ThresholdSettings
    \/ MainContent
    \/ AddSchedule
    \/ DisplaySchedules
    \/ Statistics
    \/ AutoRefresh
    \/ Footer

SpecLive == Init /\ [][NextLive]_vars

\* ------------------------------------- the database functions called directly

CallSaveSchedule ==
    /\ calls < MaxCalls
    /\ \E f \in ScheduleForms :
        LET r == save_schedule("Morning Watering", f.hour, 0, 5, f.enabled,
                               schedules, schedule_seq, now)
        IN  /\ schedules' = r.table
            /\ schedule_seq' = r.seq
    /\ lastOp' = [op |-> "save_schedule", arg |-> schedule_seq + 1, raised |-> "none"]
    /\ calls' = calls + 1
    /\ UNCHANGED <<sensor_data, pump_logs, clockVars, inserts, appended, netVars,
                   widgetVars, passVars>>

\* delete_schedule with any identifier: one of a row, one of a row deleted
\* before, one never given.
CallDeleteSchedule ==
    /\ calls < MaxCalls
    /\ \E id \in 1..(schedule_seq + 1) :
        LET r == delete_schedule(id, schedules)
        IN  /\ schedules' = r.table
            /\ lastOp' = [op |-> "delete_schedule", arg |-> id, raised |-> r.raised]
    /\ calls' = calls + 1
    /\ UNCHANGED <<sensor_data, schedule_seq, pump_logs, clockVars, inserts,
                   appended, netVars, widgetVars, passVars>>

CallGetRecentData ==
    /\ calls < MaxCalls
    /\ \E range \in TimeRanges :
        /\ df' = get_recent_data(hours_map(range), sensor_data, now)
        /\ lastOp' = [op |-> "get_recent_data", arg |-> hours_map(range),
                      raised |-> "none"]
    /\ calls' = calls + 1
    /\ UNCHANGED <<dbVars, clockVars, inserts, appended, netVars, widgetVars, pc,
                   pressed, delete_id, latest_data, df_assigned, pump_status,
                   gauge_band, notice>>

InitStore ==
    /\ \E n \in {0, 2, PriorRows} : sensor_data = InitialSensorData(n)
    /\ \E n \in {0, 3} : schedules = InitialSchedules(n)
    /\ InitSession

NextStore ==
    \/ Ingest
    \/ Tick
    \/ CallSaveSchedule
    \/ CallDeleteSchedule
    \/ CallGetRecentData

SpecStore == InitStore /\ [][NextStore]_vars

\* ------------------------------------------------- the gauge, every reading

\* A pass is about to show a latest reading of any moisture percent 0..100.
InitGauge ==
    /\ \E p \in 0..100 : sensor_data = <<SensorRow(1, FullVal(p, FALSE), 12)>>
    /\ schedules = <<>>
    /\ InitSession

NextGauge ==
    \/ ManualControl
    \/ ThresholdSettings
    \/ MainContent

SpecGauge == InitGauge /\ [][NextGauge]_vars

\* ================================================================== claims

\* The sections a pass runs after the Current Status section.
AfterMain == {"add", "list", "stats", "refresh", "sleep", "footer", "done", "raised"}

IsHttp200(resp) == resp.kind = "http" /\ resp.code = 200

\* C1: send_command_to_esp reports success exactly when the device answered
\* with status 200; every other status and every network failure is reported
\* as the value False, and nothing is raised to the caller.
C1_SuccessIffStatus200 ==
    lastCmd.path \in {"pump/on", "pump/off", "mode/auto"} =>
        /\ ~lastCmd.raised
        /\ lastCmd.value <=> IsHttp200(lastCmd.resp)

\* C1's case: a pump command answered 200 (it is logged), then a command
\* that timed out and came back as False.
C1_Witness ==
    /\ requests = 2
    /\ Len(pump_logs) = 1
    /\ lastCmd.path \in {"pump/on", "pump/off", "mode/auto"}
    /\ lastCmd.resp.kind = "timeout"
    /\ ~lastCmd.value
    /\ ~lastCmd.raised

\* C2: a step that sends a command which fails (a status other than 200, or
\* a network error) adds no row to and removes none from pump_logs, schedules
\* and sensor_data, shows an error notice, and the pass goes on to the next
\* section of the page.
C2_FailedCommandChangesNothing ==
    [][(requests' = requests + 1 /\ ~lastCmd'.value) =>
          /\ pump_logs' = pump_logs
          /\ schedules' = schedules
          /\ schedule_seq' = schedule_seq
          /\ sensor_data' = sensor_data
          /\ notice'.kind = "error"
          /\ pc' = (IF pc = "manual" THEN "thresholds" ELSE "main")]_vars

\* C2's case: a command failed in a pass that then went on to the footer,
\* with rows in sensor_data and schedules and none in pump_logs.
C2_Witness ==
    /\ pc = "done"
    /\ pressed \in CommandButtons
    /\ ~lastCmd.value
    /\ ~IsHttp200(lastCmd.resp)
    /\ notice.kind = "error"
    /\ Len(sensor_data) > 0
    /\ Len(schedules) > 0
    /\ pump_logs = <<>>

\* C3 as stated: once the Current Status of a pass is on the page, a pump
\* command that succeeded in this pass, with no device payload stored since,
\* has the Pump Status show the commanded value.
C3_DisplayEqualsCommanded ==
    (/\ pc \in AfterMain
     /\ pressed \in {"pump_on", "pump_off"}
     /\ lastCmd.value
     /\ lastCmd.rows = Len(sensor_data)
     /\ pump_status # "none")
    => pump_status = (IF pressed = "pump_on" THEN "ON" ELSE "OFF")

\* C3 as amended: the Pump Status a pass shows is the pump_state of a most
\* recent sensor_data row (none with an empty table), whatever command was
\* sent, and it stays as shown until the next pass starts.
C3_DisplayIsLatestReported ==
    [][/\ (pc = "main" /\ pc' = "add") =>
            IF sensor_data = <<>>
            THEN pump_status' = "none"
            ELSE \E i \in 1..Len(sensor_data) :
                    /\ \A k \in 1..Len(sensor_data) :
                          sensor_data[k].created_at <= sensor_data[i].created_at
                    /\ pump_status' =
                          (IF sensor_data[i].pump_state THEN "ON" ELSE "OFF")
       /\ (pc \in AfterMain /\ pc' # "manual") => pump_status' = pump_status]_vars

\* C3's case: Pump ON succeeded in this pass (success notice, a log row) and
\* the Pump Status on the page says OFF, as the latest stored payload does.
C3_Witness ==
    /\ pc = "done"
    /\ pressed = "pump_on"
    /\ lastCmd.value
    /\ lastCmd.rows = Len(sensor_data)
    /\ notice.kind = "success"
    /\ Len(pump_logs) > 0
    /\ pump_status = "OFF"

CommandPath(button) ==
    CASE button = "pump_on" -> "pump/on"
      [] button = "pump_off" -> "pump/off"
      [] button = "auto" -> "mode/auto"
      [] button = "thresholds" -> "thresholds"
      [] OTHER -> "none"

\* C4: a request goes to the device only in the sidebar section of a pass
\* that a command button triggered, and it is that button's request; listing,
\* adding, deleting schedules and the auto-refresh loop send nothing.
C4_OnlyButtonsSendCommands ==
    [][requests' # requests =>
          /\ pc \in {"manual", "thresholds"}
          /\ pressed \in CommandButtons
          /\ requests' = requests + 1
          /\ lastCmd'.path = CommandPath(pressed)]_vars

\* C4's case: an enabled schedule added in this session is due this hour, the
\* page auto-refreshes, and still nothing was sent to the device.
C4_Witness ==
    /\ pc = "sleep"
    /\ auto_refresh
    /\ requests = 0
    /\ \E i \in 1..Len(schedules) :
          /\ schedules[i].enabled
          /\ schedules[i].hour = now % 24
          /\ schedules[i].created_at = now

\* A step that is a direct call of delete_schedule.
DeleteCalled == calls' = calls + 1 /\ lastOp'.op = "delete_schedule"

IdPresent(id, table) == \E k \in 1..Len(table) : table[k].id = id

RemovesExactly(id) ==
    \E k \in 1..Len(schedules) :
        /\ schedules[k].id = id
        /\ schedules' = RemoveAt(schedules, k)

\* C5 as stated: delete_schedule with an identifier of no current entry fails
\* with IndexOutOfRange and leaves the store unchanged; with a valid one it
\* removes exactly that entry, the others keeping their order.
C5_DeleteFailsOnUnknownId ==
    [][DeleteCalled =>
          IF IdPresent(lastOp'.arg, schedules)
          THEN lastOp'.raised = "none" /\ RemovesExactly(lastOp'.arg)
          ELSE lastOp'.raised = "IndexOutOfRange" /\ schedules' = schedules]_vars

\* C5 as amended: delete_schedule with an identifier of no current entry
\* raises nothing and leaves the store unchanged; with a valid one it removes
\* exactly that entry, the others keeping their order.
C5_DeleteIgnoresUnknownId ==
    [][DeleteCalled =>
          /\ lastOp'.raised = "none"
          /\ IF IdPresent(lastOp'.arg, schedules)
             THEN RemovesExactly(lastOp'.arg)
             ELSE schedules' = schedules]_vars

\* C5's case: with rows 1 and 3 left of three, delete_schedule was called
\* with the identifier 2 once more and returned.
C5_Witness ==
    /\ lastOp.op = "delete_schedule"
    /\ lastOp.arg = 2
    /\ lastOp.raised = "none"
    /\ calls = 2
    /\ schedule_seq = 3
    /\ Len(schedules) = 2
    /\ schedules[1].id = 1
    /\ schedules[2].id = 3

Min(a, b) == IF a < b THEN a ELSE b

\* C6 as stated: after N stored readings the history holds min(N, 100) of
\* them, the last 100 in their order.
C6_HistoryCappedAt100 ==
    /\ Len(sensor_data) = Min(Len(appended), 100)
    /\ MoistureOf(sensor_data) =
          SubSeq(appended, Len(appended) - Min(Len(appended), 100) + 1, Len(appended))

\* C6 as amended: after N stored readings the history holds all N of them in
\* their order; nothing is evicted.
C6_HistoryKeepsEverything ==
    /\ Len(sensor_data) = Len(appended)
    /\ MoistureOf(sensor_data) = appended

\* C6's case: a reading was stored on top of 100 others.
C6_Witness ==
    /\ lastOp.op = "insert_sensor_data"
    /\ lastOp.raised = "none"
    /\ Len(sensor_data) > 100

\* C7 as stated: insert_sensor_data with a payload that lacks fields raises
\* nothing and stores a row, 0 for each missing number and OFF for a missing
\* pump state.
C7_MissingFieldsDefault ==
    lastOp.op = "insert_sensor_data" =>
        /\ lastOp.raised = "none"
        /\ Len(sensor_data) > 0
        /\ LET d == Payloads[lastOp.arg]
               r == Last(sensor_data)
           IN  /\ ~HasKey(d, "moisture_percent") => r.moisture_percent = 0
               /\ ~HasKey(d, "moisture_raw") => r.moisture_raw = 0
               /\ ~HasKey(d, "wifi_rssi") => r.wifi_rssi = 0
               /\ ~HasKey(d, "free_heap") => r.free_heap = 0
               /\ ~HasKey(d, "dry_threshold") => r.dry_threshold = 0
               /\ ~HasKey(d, "wet_threshold") => r.wet_threshold = 0
               /\ ~HasKey(d, "timestamp") => r.timestamp = 0
               /\ ~HasKey(d, "pump_state") => r.pump_state = FALSE

\* The moisture percent on the gauge, once a pass has drawn it.
GaugeShown == pc \in AfterMain /\ latest_data # <<>>

\* C8 as stated: the band is green iff p > 60, yellow iff 30 < p <= 60, red
\* iff p <= 30 (a reading on the shared edge of two steps counted as in the
\* band the claim names when either step is).
C8_BandsAt30And60 ==
    GaugeShown =>
        LET p == latest_data[1].moisture_percent
        IN  /\ p > 60 => gauge_band = {"green"}
            /\ (30 < p /\ p <= 60) => "yellow" \in gauge_band
            /\ p <= 30 => "red" \in gauge_band
            /\ gauge_band = {"green"} => p > 60
            /\ gauge_band = {"yellow"} => (30 < p /\ p <= 60)
            /\ gauge_band = {"red"} => p <= 30

\* C8 as amended: the band is green iff p > 50, yellow iff 30 < p < 50, red
\* iff p < 30; 30 is the shared edge of red and yellow, 50 that of yellow and
\* green.
C8_BandsAt30And50 ==
    GaugeShown =>
        LET p == latest_data[1].moisture_percent
        IN  /\ gauge_band = {"green"} <=> p > 50
            /\ gauge_band = {"yellow"} <=> (30 < p /\ p < 50)
            /\ gauge_band = {"red"} <=> p < 30
            /\ gauge_band = {"red", "yellow"} <=> p = 30
            /\ gauge_band = {"yellow", "green"} <=> p = 50

\* C8's case: the gauge drawn for a reading of 55 percent, in its green step.
C8_Witness ==
    /\ GaugeShown
    /\ latest_data[1].moisture_percent = 55
    /\ gauge_band = {"green"}

\* C9 as stated: no pass raises, the Statistics section reading df only in
\* passes that assigned it.
C9_NoPassRaises ==
    /\ pc # "raised"
    /\ pc = "stats" => df_assigned

LogRows(table) ==
    [i \in 1..Len(table) |->
        [action |-> table[i].action, trigger_type |-> table[i].trigger_type,
         moisture_level |-> table[i].moisture_level]]

\* A step in which a Pump ON / Pump OFF command was sent and returned success.
PumpCommandSucceeded ==
    /\ requests' = requests + 1
    /\ lastCmd'.path \in {"pump/on", "pump/off"}
    /\ lastCmd'.value

\* C10: pump_logs starts empty and only grows, by one row (the commanded
\* action, "Manual", 0) in each step where a Pump ON / Pump OFF command
\* returned success, and by nothing in any other step: not for a failed
\* command, not for Auto Mode, not for Update Thresholds.
C10_LogIsSuccessfulPumpPresses ==
    [][IF PumpCommandSucceeded
       THEN LogRows(pump_logs') =
               Append(LogRows(pump_logs),
                      [action |-> (IF lastCmd'.path = "pump/on" THEN "ON" ELSE "OFF"),
                       trigger_type |-> "Manual", moisture_level |-> 0])
       ELSE pump_logs' = pump_logs]_vars

\* C10's case: of two requests sent, the first left no row (it failed, or
\* was no pump command) and the second, a Pump OFF that succeeded, left the
\* only row.
C10_Witness ==
    /\ requests = 2
    /\ lastCmd.path = "pump/off"
    /\ lastCmd.value
    /\ Len(pump_logs) = 1
    /\ pump_logs[1].action = "OFF"

=============================================================================
